---- MODULE Spec2Model ----
(***************************************************************************)
(* Model of scraper.py (AILoaderboardScraper): three sequential source     *)
(* pipelines (browser fetch, table extraction, fallback on exception),     *)
(* followed by a per-list sort and the write of data.json.                 *)
(*                                                                         *)
(* Text is a tuple of one-character strings, so that str.lower(), the      *)
(* substring tests, str.strip(), float() and the regular expression are    *)
(* computed character by character.  A score is kept in hundredths         *)
(* (53.03 is 5303); every cell text of the model carries at most two       *)
(* fraction digits, for which the float comparisons with 0 and 100 agree   *)
(* with the decimal ones.                                                  *)
(***************************************************************************)
EXTENDS Integers, Sequences, FiniteSets, TLC

(* ----------------------------- text helpers ---------------------------- *)

Digits == {"0", "1", "2", "3", "4", "5", "6", "7", "8", "9"}

DigitVal ==
  ("0" :> 0) @@ ("1" :> 1) @@ ("2" :> 2) @@ ("3" :> 3) @@ ("4" :> 4) @@
  ("5" :> 5) @@ ("6" :> 6) @@ ("7" :> 7) @@ ("8" :> 8) @@ ("9" :> 9)

UpperToLower ==
  ("A" :> "a") @@ ("B" :> "b") @@ ("C" :> "c") @@ ("D" :> "d") @@
  ("E" :> "e") @@ ("F" :> "f") @@ ("G" :> "g") @@ ("H" :> "h") @@
  ("I" :> "i") @@ ("J" :> "j") @@ ("K" :> "k") @@ ("L" :> "l") @@
  ("M" :> "m") @@ ("N" :> "n") @@ ("O" :> "o") @@ ("P" :> "p") @@
  ("Q" :> "q") @@ ("R" :> "r") @@ ("S" :> "s") @@ ("T" :> "t") @@
  ("U" :> "u") @@ ("V" :> "v") @@ ("W" :> "w") @@ ("X" :> "x") @@
  ("Y" :> "y") @@ ("Z" :> "z")

\* str.lower()
Lower(s) ==
  [i \in 1..Len(s) |-> IF s[i] \in DOMAIN UpperToLower THEN UpperToLower[s[i]] ELSE s[i]]

\* needle in hay
Contains(hay, needle) ==
  \E i \in 0..(Len(hay) - Len(needle)) : SubSeq(hay, i + 1, i + Len(needle)) = needle

\* str.strip(): leading and trailing white space removed
Strip(s) ==
  LET nonblank == {i \in 1..Len(s) : s[i] # " "}
      lo == CHOOSE i \in nonblank : \A j \in nonblank : i <= j
      hi == CHOOSE i \in nonblank : \A j \in nonblank : i >= j
  IN  IF nonblank = {} THEN <<>> ELSE SubSeq(s, lo, hi)

RECURSIVE Flatten(_)
\* concatenation of a sequence of sequences
Flatten(ss) ==
  IF ss = <<>> THEN <<>> ELSE Head(ss) \o Flatten(Tail(ss))

RECURSIVE DigitsValue(_)
\* value of a run of decimal digits (0 for the empty run)
DigitsValue(ds) ==
  IF ds = <<>> THEN 0
  ELSE 10 * DigitsValue(SubSeq(ds, 1, Len(ds) - 1)) + DigitVal[ds[Len(ds)]]

\* hundredths denoted by integer digits ip and fraction digits fp
Hundredths(ip, fp) ==
  LET f2 == SubSeq(fp \o <<"0", "0">>, 1, 2)
  IN  100 * DigitsValue(ip) + DigitsValue(f2)

\* float(text): [ok |-> FALSE] stands for ValueError
ParseFloat(text) ==
  LET signed == text # <<>> /\ Head(text) \in {"+", "-"}
      body   == IF signed THEN Tail(text) ELSE text
      dots   == {i \in 1..Len(body) : body[i] = "."}
      wellformed ==
        /\ \A i \in 1..Len(body) : body[i] \in Digits \cup {"."}
        /\ Cardinality(dots) <= 1
        /\ \E i \in 1..Len(body) : body[i] \in Digits
      dot == IF dots = {} THEN Len(body) + 1 ELSE CHOOSE i \in dots : TRUE
      mag == Hundredths(SubSeq(body, 1, dot - 1), SubSeq(body, dot + 1, Len(body)))
  IN  IF ~wellformed THEN [ok |-> FALSE, v |-> 0]
      ELSE [ok |-> TRUE, v |-> IF signed /\ Head(text) = "-" THEN 0 - mag ELSE mag]

\* length of the longest run of digits of s that starts at position i
DigitRun(s, i) ==
  LET stops == {j \in i..Len(s) : s[j] \notin Digits}
  IN  IF stops = {} THEN Len(s) - i + 1
      ELSE (CHOOSE j \in stops : \A k \in stops : j <= k) - i

\* re.search(r'(\d+\.?\d*)%?', text) followed by float(match.group(1)):
\* [ok |-> FALSE] stands for no match
SearchNumber(text) ==
  LET starts == {i \in 1..Len(text) : text[i] \in Digits}
      st   == CHOOSE i \in starts : \A j \in starts : i <= j
      n1   == DigitRun(text, st)
      e1   == st + n1
      dot  == e1 <= Len(text) /\ text[e1] = "."
      n2   == IF dot THEN DigitRun(text, e1 + 1) ELSE 0
  IN  IF starts = {} THEN [ok |-> FALSE, v |-> 0]
      ELSE [ok |-> TRUE,
            v  |-> Hundredths(SubSeq(text, st, e1 - 1),
                              IF dot THEN SubSeq(text, e1 + 1, e1 + n2) ELSE <<>>)]

(* ------------------------- provider classifier ------------------------- *)

_extract_providerGeminiFirst(name) ==
  LET name_lower == Lower(name)
  IN  IF Contains(name_lower, <<"c", "l", "a", "u", "d", "e">>) THEN "Anthropic"
      ELSE IF Contains(name_lower, <<"g", "e", "m", "i", "n", "i">>) \/ Contains(name_lower, <<"g", "o", "o", "g", "l", "e">>) THEN "Google"
      ELSE IF Contains(name_lower, <<"g", "p", "t">>) \/ Contains(name_lower, <<"o", "p", "e", "n", "a", "i">>) THEN "OpenAI"
      ELSE IF Contains(name_lower, <<"k", "i", "m", "i">>) \/ Contains(name_lower, <<"m", "o", "o", "n", "s", "h", "o", "t">>) THEN "Moonshot AI"
      ELSE IF Contains(name_lower, <<"g", "l", "m">>) THEN "Z AI"
      ELSE IF Contains(name_lower, <<"q", "w", "e", "n">>) THEN "Alibaba"
      ELSE IF Contains(name_lower, <<"d", "e", "e", "p", "s", "e", "e", "k">>) THEN "DeepSeek"
      ELSE IF Contains(name_lower, <<"m", "i", "n", "i", "m", "a", "x">>) THEN "Minimax"
      ELSE IF Contains(name_lower, <<"l", "l", "a", "m", "a">>) \/ Contains(name_lower, <<"m", "e", "t", "a">>) THEN "Meta"
      ELSE IF Contains(name_lower, <<"m", "i", "s", "t", "r", "a", "l">>) THEN "Mistral"
      ELSE "Unknown"

_extract_provider(name) ==
  LET name_lower == Lower(name)
  IN  IF Contains(name_lower, <<"c", "l", "a", "u", "d", "e">>) THEN "Anthropic"
      ELSE IF Contains(name_lower, <<"g", "p", "t">>) \/ Contains(name_lower, <<"o", "p", "e", "n", "a", "i">>) THEN "OpenAI"
      ELSE IF Contains(name_lower, <<"g", "e", "m", "i", "n", "i">>) \/ Contains(name_lower, <<"g", "o", "o", "g", "l", "e">>) THEN "Google"
      ELSE IF Contains(name_lower, <<"k", "i", "m", "i">>) \/ Contains(name_lower, <<"m", "o", "o", "n", "s", "h", "o", "t">>) THEN "Moonshot AI"
      ELSE IF Contains(name_lower, <<"g", "l", "m">>) THEN "Z AI"
      ELSE IF Contains(name_lower, <<"q", "w", "e", "n">>) THEN "Alibaba"
      ELSE IF Contains(name_lower, <<"d", "e", "e", "p", "s", "e", "e", "k">>) THEN "DeepSeek"
      ELSE IF Contains(name_lower, <<"m", "i", "n", "i", "m", "a", "x">>) THEN "Minimax"
      ELSE IF Contains(name_lower, <<"l", "l", "a", "m", "a">>) \/ Contains(name_lower, <<"m", "e", "t", "a">>) THEN "Meta"
      ELSE IF Contains(name_lower, <<"m", "i", "s", "t", "r", "a", "l">>) THEN "Mistral"
      ELSE "Unknown"

(* ------------------------------- sources ------------------------------- *)

\* the order in which run() awaits the three pipelines
Pipelines == <<"intelligenceIndex", "swebench", "hle">>

Sources == {Pipelines[i] : i \in 1..Len(Pipelines)}

Entry(name, provider, score) ==
  [name |-> name, provider |-> provider, score |-> score]

_fallback_intelligence_index ==
  << Entry(<<"C", "l", "a", "u", "d", "e", " ", "O", "p", "u", "s", " ", "4", ".", "6", " ", "(", "m", "a", "x", ")">>, "Anthropic", 5303),
     Entry(<<"C", "l", "a", "u", "d", "e", " ", "S", "o", "n", "n", "e", "t", " ", "4", ".", "6", " ", "(", "m", "a", "x", ")">>, "Anthropic", 5127),
     Entry(<<"G", "P", "T", "-", "5", ".", "2", " ", "(", "x", "h", "i", "g", "h", ")">>, "OpenAI", 5124),
     Entry(<<"C", "l", "a", "u", "d", "e", " ", "O", "p", "u", "s", " ", "4", ".", "5">>, "Anthropic", 4969),
     Entry(<<"G", "L", "M", "-", "5">>, "Z AI", 4964),
     Entry(<<"G", "P", "T", "-", "5", ".", "2", " ", "C", "o", "d", "e", "x", " ", "(", "x", "h", "i", "g", "h", ")">>, "OpenAI", 4898),
     Entry(<<"G", "e", "m", "i", "n", "i", " ", "3", " ", "P", "r", "o", " ", "P", "r", "e", "v", "i", "e", "w", " ", "(", "h", "i", "g", "h", ")">>, "Google", 4844),
     Entry(<<"G", "P", "T", "-", "5", ".", "1", " ", "(", "h", "i", "g", "h", ")">>, "OpenAI", 4756),
     Entry(<<"K", "i", "m", "i", " ", "K", "2", ".", "5">>, "Moonshot AI", 4673),
     Entry(<<"G", "P", "T", "-", "5", ".", "2", " ", "(", "m", "e", "d", "i", "u", "m", ")">>, "OpenAI", 4658),
     Entry(<<"G", "e", "m", "i", "n", "i", " ", "3", " ", "F", "l", "a", "s", "h">>, "Google", 4640) >>

_fallback_swebench ==
  << Entry(<<"C", "l", "a", "u", "d", "e", " ", "4", ".", "5", " ", "O", "p", "u", "s", " ", "m", "e", "d", "i", "u", "m", " ", "(", "2", "0", "2", "5", "1", "1", "0", "1", ")">>, "Anthropic", 7440),
     Entry(<<"G", "e", "m", "i", "n", "i", " ", "3", " ", "P", "r", "o", " ", "P", "r", "e", "v", "i", "e", "w", " ", "(", "2", "0", "2", "5", "-", "1", "1", "-", "1", "8", ")">>, "Google DeepMind", 7420),
     Entry(<<"G", "P", "T", "-", "5", ".", "2", " ", "(", "2", "0", "2", "5", "-", "1", "2", "-", "1", "1", ")", " ", "(", "h", "i", "g", "h", " ", "r", "e", "a", "s", "o", "n", "i", "n", "g", ")">>, "OpenAI", 7180),
     Entry(<<"C", "l", "a", "u", "d", "e", " ", "4", ".", "5", " ", "S", "o", "n", "n", "e", "t", " ", "(", "2", "0", "2", "5", "0", "9", "2", "9", ")">>, "Anthropic", 7060),
     Entry(<<"G", "P", "T", "-", "5", ".", "2", " ", "(", "2", "0", "2", "5", "-", "1", "2", "-", "1", "1", ")">>, "OpenAI", 6900),
     Entry(<<"C", "l", "a", "u", "d", "e", " ", "4", " ", "O", "p", "u", "s", " ", "(", "2", "0", "2", "5", "0", "5", "1", "4", ")">>, "Anthropic", 6760),
     Entry(<<"G", "P", "T", "-", "5", ".", "1", "-", "c", "o", "d", "e", "x", " ", "(", "m", "e", "d", "i", "u", "m", " ", "r", "e", "a", "s", "o", "n", "i", "n", "g", ")">>, "OpenAI", 6600),
     Entry(<<"G", "P", "T", "-", "5", ".", "1", " ", "(", "2", "0", "2", "5", "-", "1", "1", "-", "1", "3", ")", " ", "(", "m", "e", "d", "i", "u", "m", " ", "r", "e", "a", "s", "o", "n", "i", "n", "g", ")">>, "OpenAI", 6600),
     Entry(<<"G", "P", "T", "-", "5", " ", "(", "2", "0", "2", "5", "-", "0", "8", "-", "0", "7", ")", " ", "(", "m", "e", "d", "i", "u", "m", " ", "r", "e", "a", "s", "o", "n", "i", "n", "g", ")">>, "OpenAI", 6500),
     Entry(<<"C", "l", "a", "u", "d", "e", " ", "4", " ", "S", "o", "n", "n", "e", "t", " ", "(", "2", "0", "2", "5", "0", "5", "1", "4", ")">>, "Anthropic", 6493) >>

_fallback_hle ==
  << Entry(<<"G", "e", "m", "i", "n", "i", " ", "3", " ", "P", "r", "o", " ", "P", "r", "e", "v", "i", "e", "w">>, "Google", 3752),
     Entry(<<"C", "l", "a", "u", "d", "e", " ", "O", "p", "u", "s", " ", "4", ".", "6", " ", "(", "T", "h", "i", "n", "k", "i", "n", "g", " ", "M", "a", "x", ")">>, "Anthropic", 3444),
     Entry(<<"G", "P", "T", "-", "5", " ", "P", "r", "o", " ", "(", "2", "0", "2", "5", "-", "1", "0", "-", "0", "6", ")">>, "OpenAI", 3164),
     Entry(<<"G", "P", "T", "-", "5", ".", "2", " ", "(", "2", "0", "2", "5", "-", "1", "2", "-", "1", "1", ")">>, "OpenAI", 2780),
     Entry(<<"G", "P", "T", "-", "5", " ", "(", "2", "0", "2", "5", "-", "0", "8", "-", "0", "7", ")">>, "OpenAI", 2532),
     Entry(<<"C", "l", "a", "u", "d", "e", " ", "O", "p", "u", "s", " ", "4", ".", "5", " ", "T", "h", "i", "n", "k", "i", "n", "g">>, "Anthropic", 2520),
     Entry(<<"K", "i", "m", "i", " ", "K", "2", ".", "5">>, "Moonshot AI", 2437),
     Entry(<<"G", "P", "T", "-", "5", ".", "1", " ", "T", "h", "i", "n", "k", "i", "n", "g">>, "OpenAI", 2368),
     Entry(<<"G", "e", "m", "i", "n", "i", " ", "2", ".", "5", " ", "P", "r", "o", " ", "P", "r", "e", "v", "i", "e", "w">>, "Google", 2164),
     Entry(<<"o", "3", " ", "(", "h", "i", "g", "h", ")", " ", "(", "A", "p", "r", "i", "l", " ", "2", "0", "2", "5", ")">>, "OpenAI", 2032) >>

\* the fallback table the except branch of source s assigns
Fallback(s) ==
  CASE s = "intelligenceIndex" -> _fallback_intelligence_index
    [] s = "swebench"          -> _fallback_swebench
    [] s = "hle"               -> _fallback_hle

\* the substrings whose presence in name.lower() rejects a candidate
ExclusionTokens(s) ==
  CASE s = "intelligenceIndex" -> {<<"r", "a", "n", "k">>, <<"m", "o", "d", "e", "l">>, <<"e", "l", "o">>, <<"s", "c", "o", "r", "e">>}
    [] s = "swebench"          -> {<<"r", "a", "n", "k">>, <<"m", "o", "d", "e", "l">>, <<"%">>, <<"r", "e", "s", "o", "l", "v", "e", "d">>}
    [] s = "hle"               -> {<<"r", "a", "n", "k">>, <<"m", "o", "d", "e", "l">>, <<"a", "c", "c", "u", "r", "a", "c", "y">>, <<"s", "c", "o", "r", "e">>}

NameAcceptedNoLower(s, name) ==
  /\ name # <<>>
  /\ ~ \E x \in ExclusionTokens(s) : Contains(name, x)

\* name and not any(x in name.lower() for x in [...])
NameAccepted(s, name) ==
  /\ name # <<>>
  /\ ~ \E x \in ExclusionTokens(s) : Contains(Lower(name), x)

ScoreOfClosedBound(s, text) ==
  LET r == IF s = "intelligenceIndex" THEN ParseFloat(text) ELSE SearchNumber(text)
  IN  [ok |-> r.ok /\ 0 < r.v /\ r.v <= 10000, v |-> r.v]

\* the score a cell text yields for source s: float(text) with 0 < score < 100
\* for the intelligence index, the regular expression with 0 < score <= 100
\* for the two percentage sources; ok is FALSE when the cell is passed over
ScoreOf(s, text) ==
  LET r == IF s = "intelligenceIndex" THEN ParseFloat(text) ELSE SearchNumber(text)
  IN  IF s = "intelligenceIndex"
      THEN [ok |-> r.ok /\ 0 < r.v /\ r.v < 10000, v |-> r.v]
      ELSE [ok |-> r.ok /\ 0 < r.v /\ r.v <= 10000, v |-> r.v]

(* ------------------------------ page tree ------------------------------ *)
(* A page is the sequence of its top-level <table> elements, a table the   *)
(* sequence of its own <tr> rows, a row the sequence of its own <td>/<th>  *)
(* cells, a cell its own text and the tables nested inside it.             *)

Cell(text) == [text |-> text, inner |-> <<>>]

CellWith(text, tables) == [text |-> text, inner |-> tables]

RECURSIVE FindAllCells(_)
RECURSIVE CellsUnder(_)
\* every <td>/<th> below a cell, in document order
CellsUnder(cell) ==
  Flatten([t \in 1..Len(cell.inner) |->
            Flatten([r \in 1..Len(cell.inner[t]) |-> FindAllCells(cell.inner[t][r])])])

\* row.find_all(['td', 'th']): the row's cells and every cell nested in them
FindAllCells(row) ==
  Flatten([i \in 1..Len(row) |-> <<row[i]>> \o CellsUnder(row[i])])

RECURSIVE GetText(_)
\* cell.get_text(strip=True): the stripped strings below the cell, joined
GetText(cell) ==
  Strip(cell.text) \o
  Flatten([t \in 1..Len(cell.inner) |->
            Flatten([r \in 1..Len(cell.inner[t]) |->
                      Flatten([c \in 1..Len(cell.inner[t][r]) |->
                                GetText(cell.inner[t][r][c])])])])

RECURSIVE FindAllRows(_)
\* table.find_all('tr'): the table's rows and every row of a nested table
FindAllRows(table) ==
  Flatten([i \in 1..Len(table) |->
            <<table[i]>> \o
            Flatten([c \in 1..Len(table[i]) |->
                      Flatten([t \in 1..Len(table[i][c].inner) |->
                                FindAllRows(table[i][c].inner[t])])])])

RECURSIVE TablesUnder(_)
\* every <table> nested below a table, in document order
TablesUnder(table) ==
  Flatten([i \in 1..Len(table) |->
            Flatten([c \in 1..Len(table[i]) |->
                      Flatten([t \in 1..Len(table[i][c].inner) |->
                                <<table[i][c].inner[t]>> \o TablesUnder(table[i][c].inner[t])])])])

\* soup.find_all('table')
FindAllTables(page) ==
  Flatten([i \in 1..Len(page) |-> <<page[i]>> \o TablesUnder(page[i])])

\* the rows the two outer loops visit: rows[1:] of every table found
RowsToVisit(page) ==
  LET tables == FindAllTables(page)
  IN  Flatten([t \in 1..Len(tables) |->
                LET rows == FindAllRows(tables[t])
                IN  SubSeq(rows, 2, Len(rows))])

\* the entries the loop body appends for one cell text
CellEntries(s, name, text) ==
  LET sc == ScoreOf(s, text)
  IN  IF sc.ok /\ NameAccepted(s, name)
      THEN << Entry(name, _extract_provider(name), sc.v) >>
      ELSE <<>>

\* the entries one row of the loop appends, in cell order
RowEntries(s, row) ==
  LET cols == FindAllCells(row)
  IN  IF Len(cols) >= 2
      THEN Flatten([i \in 1..(Len(cols) - 1) |->
                     CellEntries(s, GetText(cols[1]), GetText(cols[i + 1]))])
      ELSE <<>>

\* the list a pipeline that does not raise accumulates from a page
Extract(s, page) ==
  LET rows == RowsToVisit(page)
  IN  Flatten([i \in 1..Len(rows) |-> RowEntries(s, rows[i])])

RECURSIVE InsertDesc(_, _)
InsertDesc(sorted, e) ==
  IF sorted = <<>> THEN <<e>>
  ELSE IF Head(sorted).score >= e.score THEN <<Head(sorted)>> \o InsertDesc(Tail(sorted), e)
  ELSE <<e>> \o sorted

RECURSIVE InsertDescBeforeTies(_, _)
InsertDescBeforeTies(sorted, e) ==
  IF sorted = <<>> THEN <<e>>
  ELSE IF Head(sorted).score > e.score
       THEN <<Head(sorted)>> \o InsertDescBeforeTies(Tail(sorted), e)
  ELSE <<e>> \o sorted

RECURSIVE SortDescUnstable(_)
SortDescUnstable(lst) ==
  IF lst = <<>> THEN <<>>
  ELSE InsertDescBeforeTies(SortDescUnstable(SubSeq(lst, 1, Len(lst) - 1)), lst[Len(lst)])

RECURSIVE SortDesc(_)
\* list.sort(key=lambda x: x["score"], reverse=True): stable, descending
SortDesc(lst) ==
  IF lst = <<>> THEN <<>>
  ELSE InsertDesc(SortDesc(SubSeq(lst, 1, Len(lst) - 1)), lst[Len(lst)])

(* --------------------------- pages of the model ------------------------ *)

\* a leaderboard table: header row, a tie on 49.64, a row with two numbers
TypicalTable ==
  << << Cell(<<"R", "a", "n", "k">>), Cell(<<"M", "o", "d", "e", "l">>), Cell(<<"S", "c", "o", "r", "e">>) >>,
     << Cell(<<"G", "L", "M", "-", "5">>), Cell(<<"4", "9", ".", "6", "4">>) >>,
     << Cell(<<"C", "l", "a", "u", "d", "e", " ", "O", "p", "u", "s", " ", "4", ".", "5">>), Cell(<<"5", "3", ".", "0">>), Cell(<<"1", "2">>) >>,
     << Cell(<<"K", "i", "m", "i", " ", "K", "2", ".", "5">>), Cell(<<"4", "9", ".", "6", "4">>) >>,
     << Cell(<<" ", "Q", "w", "e", "n", "-", "M", "a", "x", " ">>), Cell(<<"7", "4", ".", "4", "0", "%">>) >> >>

\* a table of boundary cases: a first row that looks like data, excluded and
\* empty names, a one-cell row, scores on and beyond the bounds
EdgeTable ==
  << << Cell(<<"F", "o", "o", "-", "B", "a", "r", "-", "1">>), Cell(<<"5", "0">>) >>,
     << Cell(<<"M", "O", "D", "E", "L", " ", "X">>), Cell(<<"5", "0">>) >>,
     << Cell(<<" ", " ">>), Cell(<<"5", "0">>) >>,
     << Cell(<<"F", "o", "o", "-", "B", "a", "r", "-", "1">>) >>,
     << Cell(<<"O", "p", "e", "n", "A", "I", " ", "G", "e", "m", "i", "n", "i">>), Cell(<<"1", "0", "0">>), Cell(<<"0">>), Cell(<<"n", "/", "a">>), Cell(<<"1", "0", "0", ".", "0", "1">>) >>,
     << Cell(<<"A", "c", "c", "u", "r", "a", "c", "y", " ", "L", "l", "a", "m", "a">>), Cell(<<"7">>), Cell(<<"-", "3">>) >>,
     << Cell(<<"R", "e", "s", "o", "l", "v", "e", "d", " ", "%">>), Cell(<<"8", "8">>) >>,
     << Cell(<<"F", "o", "o", "-", "B", "a", "r", "-", "1">>), Cell(<<"t", "o", "p", " ", "3", ".", "5", "%">>), Cell(<<"9", "9", ".", "9", "9">>) >> >>

InnerTable ==
  << << Cell(<<"M", "i", "n", "i", "m", "a", "x", " ", "M", "2">>), Cell(<<"6", "1">>) >>,
     << Cell(<<"M", "i", "s", "t", "r", "a", "l", " ", "L", "a", "r", "g", "e">>), Cell(<<"6", "2">>) >> >>

\* a table with a table nested in a cell of its second row
NestedTable ==
  << << Cell(<<"M", "o", "d", "e", "l">>), Cell(<<"D", "e", "t", "a", "i", "l", "s">>) >>,
     << Cell(<<"D", "e", "e", "p", "S", "e", "e", "k", " ", "V", "3">>), CellWith(<<>>, <<InnerTable>>) >> >>

\* a table with nothing but its header row
HeaderOnlyTable ==
  << << Cell(<<"M", "o", "d", "e", "l">>), Cell(<<"S", "c", "o", "r", "e">>) >> >>

TablePool == {TypicalTable, EdgeTable, NestedTable}

MaxTables == 1

\* the rendered pages a site may serve: up to MaxTables top-level tables of
\* the pool, or the header-only table alone
Pages ==
  UNION {[1..n -> TablePool] : n \in 0..MaxTables} \cup {<<HeaderOnlyTable>>}

(* ------------------------------ the program ---------------------------- *)

VARIABLES
  pc,        \* position of run(): begin, launch, goto, content, close, parse,
             \* write, done, raised
  cur,       \* index in Pipelines of the pipeline being awaited
  data,      \* self.data, the three lists
  browsers,  \* the sources whose browser instance is alive
  content,   \* the HTML page.content() returned to the running pipeline
  rows,      \* the rows the extraction loop has still to visit
  written,   \* data.json: <<>> before the write, then <<the three lists>>
  page,      \* history: the page each pipeline that returned normally had read
  raisedAt,  \* history: the step at which each pipeline raised, or "none"
  discarded, \* history: whether a pipeline had appended entries when it raised
  launched,  \* history: the browser instances each pipeline launched
  started,   \* history: the pipelines in the order they were started
  produced,  \* history: the three lists as the pipelines left them
  escaped    \* where an exception that left run() came from, or "none"

vars == <<pc, cur, data, browsers, content, rows, written, page, raisedAt,
          discarded, launched, started, produced, escaped>>

\* the source of the pipeline being awaited
Running == Pipelines[cur]

\* the steps of a pipeline that lie inside its try block
TrySteps == {"launch", "goto", "content", "close", "parse"}

Init ==
  /\ pc = "begin"
  /\ cur = 1
  /\ data = [s \in Sources |-> <<>>]
  /\ browsers = {}
  /\ content = <<>>
  /\ rows = <<>>
  /\ written = <<>>
  /\ page = [s \in Sources |-> <<>>]
  /\ raisedAt = [s \in Sources |-> "none"]
  /\ discarded = [s \in Sources |-> FALSE]
  /\ launched = [s \in Sources |-> 0]
  /\ started = <<>>
  /\ produced = [s \in Sources |-> <<>>]
  /\ escaped = "none"

\* run() awaits the next pipeline
BeginPipeline ==
  /\ pc = "begin"
  /\ pc' = "launch"
  /\ started' = Append(started, Running)
  /\ UNCHANGED <<cur, data, browsers, content, rows, written, page, raisedAt,
                 discarded, launched, produced, escaped>>

\* async_playwright() is entered and p.chromium.launch() returns a browser
Launch ==
  /\ pc = "launch"
  /\ browsers' = browsers \cup {Running}
  /\ launched' = [launched EXCEPT ![Running] = @ + 1]
  /\ pc' = "goto"
  /\ UNCHANGED <<cur, data, content, rows, written, page, raisedAt, discarded,
                 started, produced, escaped>>

\* browser.new_page(), page.goto(...) and the sleep complete
Goto ==
  /\ pc = "goto"
  /\ pc' = "content"
  /\ UNCHANGED <<cur, data, browsers, content, rows, written, page, raisedAt,
                 discarded, launched, started, produced, escaped>>

\* page.content() returns the rendered page
Content ==
  /\ pc = "content"
  /\ \E p \in Pages : content' = p
  /\ pc' = "close"
  /\ UNCHANGED <<cur, data, browsers, rows, written, page, raisedAt, discarded,
                 launched, started, produced, escaped>>

CloseKeepsBrowser ==
  /\ pc = "close"
  /\ rows' = RowsToVisit(content)
  /\ pc' = "parse"
  /\ UNCHANGED <<cur, data, browsers, content, written, page, raisedAt, discarded,
                 launched, started, produced, escaped>>

\* browser.close(), then the page is parsed and its tables are located
Close ==
  /\ pc = "close"
  /\ browsers' = browsers \ {Running}
  /\ rows' = RowsToVisit(content)
  /\ pc' = "parse"
  /\ UNCHANGED <<cur, data, content, written, page, raisedAt, discarded,
                 launched, started, produced, escaped>>

\* one iteration of the row loop
ParseRow ==
  /\ pc = "parse"
  /\ rows # <<>>
  /\ data' = [data EXCEPT ![Running] = @ \o RowEntries(Running, Head(rows))]
  /\ rows' = Tail(rows)
  /\ UNCHANGED <<pc, cur, browsers, content, written, page, raisedAt, discarded,
                 launched, started, produced, escaped>>

\* control returns to run(), which awaits the next pipeline or goes on to sort
NextStep ==
  /\ cur' = IF cur < Len(Pipelines) THEN cur + 1 ELSE cur
  /\ pc' = IF cur < Len(Pipelines) THEN "begin" ELSE "write"
  /\ content' = <<>>
  /\ rows' = <<>>

FinishPipelineFallbackIfEmpty ==
  /\ pc = "parse"
  /\ rows = <<>>
  /\ page' = [page EXCEPT ![Running] = content]
  /\ data' = [data EXCEPT ![Running] = IF @ = <<>> THEN Fallback(Running) ELSE @]
  /\ NextStep
  /\ UNCHANGED <<browsers, written, raisedAt, discarded, launched,
                 started, produced, escaped>>

\* the loops end and the pipeline returns without raising
FinishPipeline ==
  /\ pc = "parse"
  /\ rows = <<>>
  /\ page' = [page EXCEPT ![Running] = content]
  /\ NextStep
  /\ UNCHANGED <<data, browsers, written, raisedAt, discarded, launched,
                 started, produced, escaped>>

RaiseKeepsPartial ==
  /\ pc \in TrySteps
  /\ data' = [data EXCEPT ![Running] = @ \o Fallback(Running)]
  /\ raisedAt' = [raisedAt EXCEPT ![Running] = pc]
  /\ discarded' = [discarded EXCEPT ![Running] = (data[Running] # <<>>)]
  /\ browsers' \in {browsers, browsers \ {Running}}
  /\ NextStep
  /\ UNCHANGED <<written, page, launched, started, produced, escaped>>

RaiseClobbersOthers ==
  /\ pc \in TrySteps
  /\ data' = [s \in Sources |-> IF s = Running THEN Fallback(s) ELSE <<>>]
  /\ raisedAt' = [raisedAt EXCEPT ![Running] = pc]
  /\ discarded' = [discarded EXCEPT ![Running] = (data[Running] # <<>>)]
  /\ browsers' \in {browsers, browsers \ {Running}}
  /\ NextStep
  /\ UNCHANGED <<written, page, launched, started, produced, escaped>>

\* a step inside the try block raises: the except branch assigns the fallback
\* table.  The pipeline calls browser.close() only on the path that did not
\* raise; a browser that is alive here is left to the exit of the playwright
\* context manager, which may or may not have reaped it.
Raise ==
  /\ pc \in TrySteps
  /\ data' = [data EXCEPT ![Running] = Fallback(Running)]
  /\ raisedAt' = [raisedAt EXCEPT ![Running] = pc]
  /\ discarded' = [discarded EXCEPT ![Running] = (data[Running] # <<>>)]
  /\ browsers' \in {browsers, browsers \ {Running}}
  /\ NextStep
  /\ UNCHANGED <<written, page, launched, started, produced, escaped>>

\* the three lists sorted as run() sorts them
Sorted(d) == [s \in Sources |-> SortDesc(d[s])]

\* the three sorts, then data.json is written and run() returns self.data
SortAndWrite ==
  /\ pc = "write"
  /\ produced' = data
  /\ data' = Sorted(data)
  /\ written' = << Sorted(data) >>
  /\ pc' = "done"
  /\ UNCHANGED <<cur, browsers, content, rows, page, raisedAt, discarded,
                 launched, started, escaped>>

\* the three sorts, then open() or json.dump() raises: nothing catches it
WriteRaise ==
  /\ pc = "write"
  /\ produced' = data
  /\ data' = Sorted(data)
  /\ escaped' = "write"
  /\ pc' = "raised"
  /\ UNCHANGED <<cur, browsers, content, rows, written, page, raisedAt,
                 discarded, launched, started>>

Next ==
  \/ BeginPipeline
  \/ Launch
  \/ Goto
  \/ Content
  \/ Close
  \/ ParseRow
  \/ FinishPipeline
  \/ Raise
  \/ SortAndWrite
  \/ WriteRaise

Spec == Init /\ [][Next]_vars

TypeOK ==
  /\ pc \in {"begin", "launch", "goto", "content", "close", "parse", "write", "done", "raised"}
  /\ cur \in 1..Len(Pipelines)
  /\ browsers \subseteq Sources
  /\ Len(written) <= 1

(* ------------------------------- properties ---------------------------- *)

\* the pipeline of source s has returned to run()
Finished(s) ==
  \/ pc \in {"write", "done", "raised"}
  \/ \E i \in 1..(cur - 1) : Pipelines[i] = s

Raised(s) == raisedAt[s] # "none"

\* the elements of a sequence
Range(seq) == {seq[i] : i \in 1..Len(seq)}

\* the number of positions of seq that hold e
Count(seq, e) == Cardinality({i \in 1..Len(seq) : seq[i] = e})

\* the entries of lst whose score is v, in the order of lst
WithScore(lst, v) == SelectSeq(lst, LAMBDA e : e.score = v)

\* C1: a pipeline that raised anywhere inside its try block leaves exactly its
\* fallback table in self.data, the returned and written snapshot carries that
\* table unchanged (same entries, same order, nothing left of the entries
\* appended before the exception), and no pipeline exception leaves run().
C1_FallbackOnRaise ==
  /\ escaped \notin Sources
  /\ \A s \in Sources : Raised(s) => Finished(s) /\ data[s] = Fallback(s)
  /\ pc = "done" => \A s \in Sources : Raised(s) => written[1][s] = Fallback(s)

C1_Witness ==
  /\ pc = "done"
  /\ raisedAt["intelligenceIndex"] = "parse" /\ discarded["intelligenceIndex"]
  /\ raisedAt["swebench"] = "launch"
  /\ raisedAt["hle"] = "content"
  /\ \A s \in Sources : written[1][s] = Fallback(s)

\* C2: a pipeline that returned without raising and whose extraction accepted
\* nothing leaves an empty list in the written snapshot, not its fallback table.
C2_EmptyIsNotFallback ==
  pc = "done" =>
    \A s \in Sources :
      (~Raised(s) /\ Extract(s, page[s]) = <<>>) =>
        (written[1][s] = <<>> /\ written[1][s] # Fallback(s))

C2_Witness ==
  /\ pc = "done"
  /\ ~Raised("intelligenceIndex") /\ page["intelligenceIndex"] = <<>>
  /\ ~Raised("swebench") /\ page["swebench"] = <<HeaderOnlyTable>>
  /\ written[1]["intelligenceIndex"] = <<>>
  /\ written[1]["swebench"] = <<>>
  /\ Raised("hle")

\* the pipelines are started in the order of Pipelines, all three before the
\* write, and no exception of a pipeline leaves run()
C3_Started ==
  /\ Len(started) <= Len(Pipelines)
  /\ started = SubSeq(Pipelines, 1, Len(started))
  /\ pc \in {"write", "done", "raised"} => started = Pipelines
  /\ escaped \notin Sources

\* a list is empty until its pipeline runs, and the list of a pipeline that
\* returned without raising is the extraction of its own page, whatever the
\* other pipelines did
C3_OwnList ==
  /\ \A s \in Sources : ~Finished(s) /\ (pc = "begin" \/ s # Running) => data[s] = <<>>
  /\ pc \in {"begin", "write"} =>
       \A s \in Sources : (~Raised(s) /\ Finished(s)) => data[s] = Extract(s, page[s])
  /\ pc = "done" =>
       \A s \in Sources : ~Raised(s) => written[1][s] = SortDesc(Extract(s, page[s]))

\* a step of a pipeline changes no list but the pipeline's own, and a pipeline,
\* raised or not, hands control to the next pipeline or, after the third, to
\* the sort and write
C3_Step ==
  /\ pc \in TrySteps => \A s \in Sources : s # Running => data'[s] = data[s]
  /\ (pc \in TrySteps /\ pc' \notin TrySteps) =>
       IF cur < Len(Pipelines)
       THEN pc' = "begin" /\ cur' = cur + 1
       ELSE pc' = "write"

\* C3: whatever subset of the pipelines raises, run() starts the three
\* pipelines in the order intelligenceIndex, swebench, hle and goes on to the
\* write; a step of a pipeline changes no list but its own, and the list of a
\* source that did not raise is the one its page alone determines.
C3_Isolation == [](C3_Started /\ C3_OwnList) /\ [][C3_Step]_vars

C3_Witness ==
  /\ pc = "done"
  /\ raisedAt["intelligenceIndex"] = "goto"
  /\ ~Raised("swebench") /\ page["swebench"] = <<TypicalTable>>
  /\ raisedAt["hle"] = "parse"
  /\ written[1]["swebench"] = SortDesc(Extract("swebench", <<TypicalTable>>))
  /\ written[1]["swebench"] # <<>>

\* w is the stable descending sort by score of p
StableDescSortOf(w, p) ==
  /\ Len(w) = Len(p)
  /\ \A e \in Range(w) \cup Range(p) : Count(w, e) = Count(p, e)
  /\ \A i \in 1..(Len(w) - 1) : w[i].score >= w[i + 1].score
  /\ \A v \in {e.score : e \in Range(p)} : WithScore(w, v) = WithScore(p, v)

\* C4: every list of the written snapshot is the stable descending sort by
\* score of the list its pipeline produced: a permutation of it, no adjacent
\* pair increasing, entries of equal score in the order they were appended.
C4_StableDescending ==
  pc = "done" => \A s \in Sources : StableDescSortOf(written[1][s], produced[s])

C4_Witness ==
  /\ pc = "done"
  /\ \E s \in Sources :
       /\ ~Raised(s)
       /\ written[1][s] # produced[s]
       /\ \E i, j \in 1..Len(produced[s]) :
            /\ i < j
            /\ produced[s][i].score = produced[s][j].score
            /\ produced[s][i].name # produced[s][j].name
  /\ \E s \in Sources : Raised(s)

\* C5: every score of the written snapshot is within the bound of its source:
\* 0 < score < 100 for intelligenceIndex, 0 < score <= 100 for swebench and hle.
C5_ScoreBounds ==
  pc = "done" =>
    \A s \in Sources : \A e \in Range(written[1][s]) :
      IF s = "intelligenceIndex"
      THEN 0 < e.score /\ e.score < 10000
      ELSE 0 < e.score /\ e.score <= 10000

C5_Witness ==
  /\ pc = "done"
  /\ ~Raised("intelligenceIndex") /\ page["intelligenceIndex"] = <<EdgeTable>>
  /\ \E e \in Range(written[1]["intelligenceIndex"]) : e.score = 9999
  /\ ~Raised("swebench") /\ page["swebench"] = <<EdgeTable>>
  /\ \E e \in Range(written[1]["swebench"]) : e.score = 10000
  /\ Raised("hle")

\* C6: every name of the written snapshot is non-empty and, lower-cased,
\* contains none of the exclusion tokens of its source.
C6_NamesClean ==
  pc = "done" =>
    \A s \in Sources : \A e \in Range(written[1][s]) :
      /\ e.name # <<>>
      /\ \A x \in ExclusionTokens(s) : ~Contains(Lower(e.name), x)

C6_Witness ==
  /\ pc = "done"
  /\ ~Raised("intelligenceIndex") /\ page["intelligenceIndex"] = <<EdgeTable>>
  /\ written[1]["intelligenceIndex"] # <<>>
  /\ ~Raised("swebench") /\ page["swebench"] = <<TypicalTable>>
  /\ written[1]["swebench"] # <<>>
  /\ Raised("hle")

RaisedHoldingBrowser == {s \in Sources : raisedAt[s] \in {"goto", "content", "close"}}

KeywordTable ==
  << <<<<"c", "l", "a", "u", "d", "e">>, "Anthropic">>,
     <<<<"g", "p", "t">>, "OpenAI">>, <<<<"o", "p", "e", "n", "a", "i">>, "OpenAI">>,
     <<<<"g", "e", "m", "i", "n", "i">>, "Google">>, <<<<"g", "o", "o", "g", "l", "e">>, "Google">>,
     <<<<"k", "i", "m", "i">>, "Moonshot AI">>, <<<<"m", "o", "o", "n", "s", "h", "o", "t">>, "Moonshot AI">>,
     <<<<"g", "l", "m">>, "Z AI">>,
     <<<<"q", "w", "e", "n">>, "Alibaba">>,
     <<<<"d", "e", "e", "p", "s", "e", "e", "k">>, "DeepSeek">>,
     <<<<"m", "i", "n", "i", "m", "a", "x">>, "Minimax">>,
     <<<<"l", "l", "a", "m", "a">>, "Meta">>, <<<<"m", "e", "t", "a">>, "Meta">>,
     <<<<"m", "i", "s", "t", "r", "a", "l">>, "Mistral">> >>

\* the provider of the first keyword of the table that occurs in the
\* lower-cased name, "Unknown" when none occurs
FirstKeywordProvider(name) ==
  LET hits == {i \in 1..Len(KeywordTable) : Contains(Lower(name), KeywordTable[i][1])}
  IN  IF hits = {} THEN "Unknown"
      ELSE KeywordTable[CHOOSE i \in hits : \A j \in hits : i <= j][2]

\* the entries the pipelines extracted from live pages
LiveEntries == UNION {Range(data[s]) : s \in {t \in Sources : ~Raised(t)}}

\* C8: the classifier returns the provider of the first keyword, in the order
\* claude, gpt/openai, gemini/google, kimi/moonshot, glm, qwen, deepseek,
\* minimax, llama/meta, mistral, that occurs in the lower-cased name, and
\* "Unknown" when none occurs; "Claude Opus 4.5" gives Anthropic, "GLM-5"
\* Z AI, "Qwen-Max" Alibaba and "Foo-Bar-1" Unknown.
C8_FirstKeywordWins ==
  \A e \in LiveEntries :
    /\ e.provider = FirstKeywordProvider(e.name)
    /\ e.name = <<"C", "l", "a", "u", "d", "e", " ", "O", "p", "u", "s", " ", "4", ".", "5">> => e.provider = "Anthropic"
    /\ e.name = <<"G", "L", "M", "-", "5">> => e.provider = "Z AI"
    /\ e.name = <<"Q", "w", "e", "n", "-", "M", "a", "x">> => e.provider = "Alibaba"
    /\ e.name = <<"F", "o", "o", "-", "B", "a", "r", "-", "1">> => e.provider = "Unknown"

C8_Witness ==
  /\ pc = "done"
  /\ \A n \in {<<"C", "l", "a", "u", "d", "e", " ", "O", "p", "u", "s", " ", "4", ".", "5">>, <<"G", "L", "M", "-", "5">>, <<"Q", "w", "e", "n", "-", "M", "a", "x">>, <<"F", "o", "o", "-", "B", "a", "r", "-", "1">>, <<"O", "p", "e", "n", "A", "I", " ", "G", "e", "m", "i", "n", "i">>} :
       \E e \in LiveEntries : e.name = n
  /\ \E e \in LiveEntries : e.name = <<"O", "p", "e", "n", "A", "I", " ", "G", "e", "m", "i", "n", "i">> /\ e.provider = "OpenAI"

\* the entries of one row as C9 describes them: the row's own cells only
OwnRowEntries(s, row) ==
  IF Len(row) >= 2
  THEN Flatten([i \in 1..(Len(row) - 1) |->
                 CellEntries(s, GetText(row[1]), GetText(row[i + 1]))])
  ELSE <<>>

\* the list C9 describes: for every table of the page in document order, for
\* every row of that table but its first, one entry per qualifying cell
OnePerRowAndCell(s, p) ==
  LET tables == FindAllTables(p)
  IN  Flatten([t \in 1..Len(tables) |->
                Flatten([r \in 1..(Len(tables[t]) - 1) |->
                          OwnRowEntries(s, tables[t][r + 1])])])

\* C9: the list a pipeline accumulates from a fetched page holds exactly one
\* entry per row that is not the first of its table and per qualifying cell
\* after the first of that row, in document order; the first row of a table
\* yields nothing.
C9_OnePerRowAndCell ==
  \A s \in Sources :
    (~Raised(s) /\ Finished(s) /\ pc # "done" /\ pc # "raised")
      => data[s] = OnePerRowAndCell(s, page[s])

\* a page in which no cell holds a table
Flat(p) ==
  \A t \in 1..Len(p) : \A r \in 1..Len(p[t]) : \A c \in 1..Len(p[t][r]) :
    p[t][r][c].inner = <<>>

\* on pages without nested tables the accumulated list is the described one
FlatPagesOnePerRowAndCell ==
  \A s \in Sources :
    (~Raised(s) /\ Finished(s) /\ pc # "done" /\ pc # "raised" /\ Flat(page[s]))
      => data[s] = OnePerRowAndCell(s, page[s])

ProviderLabels ==
  {"Anthropic", "OpenAI", "Google", "Moonshot AI", "Z AI", "Alibaba",
   "DeepSeek", "Minimax", "Meta", "Mistral", "Unknown"}

\* C10: in the written snapshot the provider of every entry, extracted or
\* taken from a fallback table, is the classifier's answer for the entry's
\* name, and so one of the classifier's eleven labels.
C10_ProviderIsClassified ==
  pc = "done" =>
    \A s \in Sources : \A e \in Range(written[1][s]) :
      /\ e.provider = _extract_provider(e.name)
      /\ e.provider \in ProviderLabels

====
